---------------------------- MODULE Spec2Model ----------------------------
(***************************************************************************)
(* webfront: the attribute validation layer (Lang, Rel, Type), the         *)
(* process-wide IANA media-type registry cache of Type, and the rendering  *)
(* of attributed / container elements and of Page.                         *)
(*                                                                         *)
(* A Python str is modelled as a sequence of one-character strings, so     *)
(* that strip, split, lower and join are computed, not assumed.            *)
(* An Optional value is <<>> for None and <<x>> for the value x.           *)
(***************************************************************************)
EXTENDS Integers, Sequences, FiniteSets, TLC

VARIABLES
    \* ---- class attributes of Type (attributes.py:185-187)
    lock,               \* Type._lock: 0 when free, else the thread holding it
    iana_mime_types,    \* Type._iana_mime_types: Optional set of str
    iana_failed,        \* Type._iana_failed
    \* ---- one activation of Type.__init__ / _try_load_iana_mime_types per thread
    pc,                 \* the line the thread is about to execute
    kind,               \* "ctor" (Type.__init__) or "direct" (_try_load_... called directly)
    value,              \* argument value of Type.__init__
    strict_registry,    \* argument strict_registry of Type.__init__
    root,               \* local root: the elements of root.iter(), in document order
    idx,                \* position of the for loop of line 221 in root
    current_top,        \* local current_top: Optional str
    mime_types,         \* local mime_types: set of str
    ret,                \* Optional: what _try_load_iana_mime_types returned, <<r>>
    outcome,            \* how the activation ended
    fetches,            \* number of urlopen invocations so far (saturates at FetchCap)
    remote,             \* the document _IANA_MEDIA_TYPES_XML serves
    \* ---- one construction of a Rel (attributes.py:121-135)
    rel_arg,            \* argument value of Rel.__init__
    rel_state,          \* "new", "built" (instance exists) or "raised" (ValueError)
    rel_self,           \* Optional self.value
    rel_out,            \* Optional result of render()
    \* ---- constructions of a Lang (attributes.py:47-60)
    lang_arg,           \* argument value of Lang.__init__
    lang_state,         \* "new", "built" (instance exists) or "raised" (ValueError)
    lang_self,          \* Optional self.value
    lang_out,           \* Optional result of render()
    lang_prev,          \* Optional value of the Lang whose value lang_arg is
    \* ---- one attributed element (elements.py:22-32, 51-144)
    el,                 \* the element: its class and its __dict__, in insertion order
    el_hist,            \* the slots assigned since the construction, in order
    el_attrs,           \* Optional result of render_attributes()
    el_out,             \* Optional result of render()
    \* ---- one Page and the elements under it (page.py:8-17)
    heap,               \* the Renderable objects; children lists hold indices into it
    page_children,      \* Page.children
    page_out            \* Optional result of Page.render()

regVars == <<lock, iana_mime_types, iana_failed, pc, kind, value, strict_registry,
             root, idx, current_top, mime_types, ret, outcome, fetches, remote>>

relVars == <<rel_arg, rel_state, rel_self, rel_out>>

langVars == <<lang_arg, lang_state, lang_self, lang_out, lang_prev>>

elVars == <<el, el_hist, el_attrs, el_out>>
pageVars == <<heap, page_children, page_out>>

\* everything but the registry cache and its threads
othersOfReg == <<relVars, langVars, elVars, pageVars>>

vars == <<regVars, relVars, langVars, elVars, pageVars>>

-----------------------------------------------------------------------------
(* Bounds *)
NThreads == 2
FetchCap == 3
MaxTypeLen == 4
MaxRelLen == 4
MaxLangLen == 5
MaxAssign == 2
MaxNodes == 6

Threads == 1..NThreads

-----------------------------------------------------------------------------
(* Optional values *)
None == <<>>
Some(x) == <<x>>
IsNone(o) == o = <<>>
Get(o) == o[1]

-----------------------------------------------------------------------------
(* The parts of the state a specification does not use stay as they start *)
RelIdle == rel_arg = <<>> /\ rel_state = "new" /\ rel_self = None /\ rel_out = None
LangIdle ==
    /\ lang_arg = <<>> /\ lang_state = "new" /\ lang_self = None
    /\ lang_out = None /\ lang_prev = None
NoElement == [cls |-> "none", dict |-> <<>>]
ElIdle == el = NoElement /\ el_hist = <<>> /\ el_attrs = None /\ el_out = None
PageIdle == heap = <<>> /\ page_children = <<>> /\ page_out = None

-----------------------------------------------------------------------------
(* Python str operations on sequences of characters *)

UpperLetters == <<"A", "B", "C", "D", "E", "F", "G", "H", "I", "J", "K", "L", "M",
                  "N", "O", "P", "Q", "R", "S", "T", "U", "V", "W", "X", "Y", "Z">>
LowerLetters == <<"a", "b", "c", "d", "e", "f", "g", "h", "i", "j", "k", "l", "m",
                  "n", "o", "p", "q", "r", "s", "t", "u", "v", "w", "x", "y", "z">>
Digits == {"0", "1", "2", "3", "4", "5", "6", "7", "8", "9"}
Letters == {UpperLetters[i] : i \in 1..26} \cup {LowerLetters[i] : i \in 1..26}

IsSpace(c) == c \in {" ", "\t", "\n", "\r", "\f"}

LowerChar(c) ==
    IF \E i \in 1..26 : UpperLetters[i] = c
    THEN LowerLetters[CHOOSE i \in 1..26 : UpperLetters[i] = c]
    ELSE c

UpperChar(c) ==
    IF \E i \in 1..26 : LowerLetters[i] = c
    THEN UpperLetters[CHOOSE i \in 1..26 : LowerLetters[i] = c]
    ELSE c

StrLower(s) == [i \in 1..Len(s) |-> LowerChar(s[i])]
StrUpper(s) == [i \in 1..Len(s) |-> UpperChar(s[i])]

RECURSIVE LStrip(_)
LStrip(s) == IF s # <<>> /\ IsSpace(Head(s)) THEN LStrip(Tail(s)) ELSE s

RECURSIVE RStrip(_)
RStrip(s) ==
    IF s # <<>> /\ IsSpace(s[Len(s)]) THEN RStrip(SubSeq(s, 1, Len(s) - 1)) ELSE s

StrStrip(s) == RStrip(LStrip(s))

Contains(c, s) == \E i \in 1..Len(s) : s[i] = c

FirstIndex(c, s) == CHOOSE i \in 1..Len(s) : s[i] = c /\ \A j \in 1..(i - 1) : s[j] # c

\* s.split(c): every occurrence of c separates two parts
RECURSIVE StrSplit(_, _)
StrSplit(s, c) ==
    IF Contains(c, s)
    THEN <<SubSeq(s, 1, FirstIndex(c, s) - 1)>>
             \o StrSplit(SubSeq(s, FirstIndex(c, s) + 1, Len(s)), c)
    ELSE <<s>>

\* s.split(c, 1): at most one split, at the first occurrence of c
StrSplit1(s, c) ==
    IF Contains(c, s)
    THEN <<SubSeq(s, 1, FirstIndex(c, s) - 1), SubSeq(s, FirstIndex(c, s) + 1, Len(s))>>
    ELSE <<s>>

\* s.split(): runs of whitespace separate the tokens, no empty token
RECURSIVE StrSplitWs(_)
StrSplitWs(s) ==
    LET u == LStrip(s)
        n == IF \E i \in 1..Len(u) : IsSpace(u[i])
             THEN CHOOSE i \in 1..Len(u) :
                      IsSpace(u[i]) /\ \A j \in 1..(i - 1) : ~IsSpace(u[j])
             ELSE Len(u) + 1
    IN  IF u = <<>> THEN <<>>
        ELSE <<SubSeq(u, 1, n - 1)>> \o StrSplitWs(SubSeq(u, n, Len(u)))

\* sep.join(parts)
RECURSIVE StrJoin(_, _)
StrJoin(sep, parts) ==
    IF parts = <<>> THEN <<>>
    ELSE IF Len(parts) = 1 THEN parts[1]
    ELSE parts[1] \o sep \o StrJoin(sep, Tail(parts))

-----------------------------------------------------------------------------
(* Type: class constants *)

FALLBACK_KNOWN ==
    { <<"i", "m", "a", "g", "e", "/", "p", "n", "g">>,
      <<"i", "m", "a", "g", "e", "/", "j", "p", "e", "g">>,
      <<"i", "m", "a", "g", "e", "/", "g", "i", "f">>,
      <<"i", "m", "a", "g", "e", "/", "w", "e", "b", "p">>,
      <<"i", "m", "a", "g", "e", "/", "a", "v", "i", "f">>,
      <<"i", "m", "a", "g", "e", "/", "s", "v", "g", "+", "x", "m", "l">>,
      <<"i", "m", "a", "g", "e", "/", "x", "-", "i", "c", "o", "n">>,
      <<"t", "e", "x", "t", "/", "c", "s", "s">>,
      <<"t", "e", "x", "t", "/", "j", "a", "v", "a", "s", "c", "r", "i", "p", "t">>,
      <<"a", "p", "p", "l", "i", "c", "a", "t", "i", "o", "n", "/",
        "j", "a", "v", "a", "s", "c", "r", "i", "p", "t">>,
      <<"a", "p", "p", "l", "i", "c", "a", "t", "i", "o", "n", "/", "j", "s", "o", "n">>,
      <<"a", "p", "p", "l", "i", "c", "a", "t", "i", "o", "n", "/", "w", "a", "s", "m">>,
      <<"f", "o", "n", "t", "/", "w", "o", "f", "f">>,
      <<"f", "o", "n", "t", "/", "w", "o", "f", "f", "2">> }

\* _TOKEN_RE = ^[A-Za-z0-9!#$&^_.+-]+$ , used with fullmatch
TokenChars == Letters \cup Digits \cup {"!", "#", "$", "&", "^", "_", ".", "+", "-"}
TOKEN_RE_fullmatch(s) == Len(s) >= 1 /\ \A i \in 1..Len(s) : s[i] \in TokenChars

top_levels ==
    { <<"a", "p", "p", "l", "i", "c", "a", "t", "i", "o", "n">>,
      <<"a", "u", "d", "i", "o">>,
      <<"f", "o", "n", "t">>,
      <<"i", "m", "a", "g", "e">>,
      <<"m", "e", "s", "s", "a", "g", "e">>,
      <<"m", "o", "d", "e", "l">>,
      <<"m", "u", "l", "t", "i", "p", "a", "r", "t">>,
      <<"t", "e", "x", "t">>,
      <<"v", "i", "d", "e", "o">> }

-----------------------------------------------------------------------------
(* Type.__init__, lines 250-267: the syntactic validation, before any      *)
(* registry access                                                         *)

TypeV(val) == StrStrip(val)                                       \* line 250
TypeParts(val) ==                                                 \* line 254
    LET ps == StrSplit(TypeV(val), ";") IN [i \in 1..Len(ps) |-> StrStrip(ps[i])]
TypeMain(val) == TypeParts(val)[1]
TypeParams(val) == Tail(TypeParts(val))
\* main.split("/") without the maxsplit, the first two parts kept
TypeTSub_splitAll(val) ==
    LET xs == StrSplit(TypeMain(val), "/")
    IN  [i \in 1..(IF Len(xs) > 2 THEN 2 ELSE Len(xs)) |-> StrStrip(xs[i])]

TypeTSub(val) ==                                                  \* line 259
    LET xs == StrSplit1(TypeMain(val), "/") IN [i \in 1..Len(xs) |-> StrStrip(xs[i])]

\* the token validation of line 264 left out
TokensOk_skipped(t, sub) == TRUE

TokensOk(t, sub) == TOKEN_RE_fullmatch(t) /\ TOKEN_RE_fullmatch(sub)   \* line 264

\* TRUE iff one of the raise ValueError of lines 251-265 is executed
TypeSyntaxError(val) ==
    \/ TypeV(val) = <<>>                                          \* line 251
    \/ ~Contains("/", TypeMain(val))                              \* line 256
    \/ TypeTSub(val)[1] = <<>> \/ TypeTSub(val)[2] = <<>>         \* line 260
    \/ ~TokensOk(TypeTSub(val)[1], TypeTSub(val)[2])              \* line 264

TypeCandidate(val) ==                                             \* line 267
    StrLower(TypeTSub(val)[1]) \o <<"/">> \o StrLower(TypeTSub(val)[2])

TypeNormalized(val) ==                                            \* lines 286-288
    IF TypeParams(val) # <<>>
    THEN TypeCandidate(val) \o <<";", " ">> \o StrJoin(<<";", " ">>, TypeParams(val))
    ELSE TypeCandidate(val)

\* the fallback set is consulted before strict_registry is looked at
TypeDecide_fallbackFirst(val, strict, registry) ==
    IF ~IsNone(registry)
    THEN IF TypeCandidate(val) \notin Get(registry) THEN "ValueError" ELSE "ok"
    ELSE IF TypeCandidate(val) \in FALLBACK_KNOWN THEN "ok"
    ELSE IF strict THEN "RuntimeError"
    ELSE "ValueError"

\* lines 270-290: the outcome, given what _try_load_iana_mime_types returned
TypeDecide(val, strict, registry) ==
    IF ~IsNone(registry)
    THEN IF TypeCandidate(val) \notin Get(registry) THEN "ValueError" ELSE "ok"
    ELSE IF strict THEN "RuntimeError"
    ELSE IF TypeCandidate(val) \notin FALLBACK_KNOWN THEN "ValueError" ELSE "ok"

-----------------------------------------------------------------------------
(* The registry document.  root is the sequence root.iter() yields: every   *)
(* element of the XML tree in document order, each with its tag (namespace  *)
(* already stripped), its id attribute and its direct children.             *)

Elem(tag, id, children) == [tag |-> tag, id |-> id, children |-> children]
Child(tag, text) == [tag |-> tag, text |-> text]

S_image == <<"i", "m", "a", "g", "e">>
S_text == <<"t", "e", "x", "t">>

\* image: png, x
DocImage ==
    << Elem("registry", Some(S_image), <<>>),
       Elem("record", None, <<Child("name", Some(<<" ", "P", "N", "G", " ">>))>>),
       Elem("record", None, <<Child("file", Some(<<"f">>)), Child("name", Some(<<"x">>))>>) >>

\* text: b (a record without name, a registry whose id is no top level)
DocText ==
    << Elem("registry", Some(S_text), <<>>),
       Elem("record", None, <<Child("file", Some(<<"f">>))>>),
       Elem("registry", Some(<<"b", "o", "g", "u", "s">>), <<>>),
       Elem("record", None, <<Child("name", Some(<<"b">>))>>) >>

\* well-formed XML without any usable record
DocNoTypes ==
    << Elem("record", None, <<Child("name", Some(<<"x">>))>>),
       Elem("registry", None, <<>>),
       Elem("record", None, <<Child("name", None)>>) >>

Docs == {DocImage, DocText, DocNoTypes}

\* lines 230-234: the first child whose tag is name, Optional
RECURSIVE NameElem(_)
NameElem(children) ==
    IF children = <<>> THEN None
    ELSE IF Head(children).tag = "name" THEN Some(Head(children))
    ELSE NameElem(Tail(children))

\* lines 222-240: one iteration of the loop over root.iter()
LoopBody(top, types, elem) ==
    IF elem.tag = "registry"
    THEN [top |-> IF ~IsNone(elem.id) /\ Get(elem.id) \in top_levels THEN elem.id ELSE top,
          types |-> types]
    ELSE IF elem.tag = "record" /\ ~IsNone(top)
    THEN LET name_elem == NameElem(elem.children)
             subtype == IF IsNone(Get(name_elem).text) THEN <<>>
                        ELSE StrStrip(Get(Get(name_elem).text))
         IN  IF IsNone(name_elem) \/ subtype = <<>>
             THEN [top |-> top, types |-> types]
             ELSE [top |-> top,
                   types |-> types \cup {StrLower(Get(top) \o <<"/">> \o subtype)}]
    ELSE [top |-> top, types |-> types]

\* lines 214-240 run to completion on a document: the complete set
RECURSIVE ParseFrom(_, _, _)
ParseFrom(top, types, elems) ==
    IF elems = <<>> THEN types
    ELSE LET r == LoopBody(top, types, Head(elems))
         IN  ParseFrom(r.top, r.types, Tail(elems))

ParseAll(doc) == ParseFrom(None, {}, doc)

-----------------------------------------------------------------------------
(* The threads.  Each thread runs activations of Type.__init__ or of        *)
(* Type._try_load_iana_mime_types, one statement at a time; pc[t] names the  *)
(* line thread t executes next.                                             *)

S_image_png == <<"i", "m", "a", "g", "e", "/", "p", "n", "g">>

\* the calls Type(value, strict_registry) the threads make: a valid value,
\* and one value for each raise ValueError of lines 251-265
ThreadCalls ==
    { <<S_image_png, FALSE>>,
      <<S_image_png, TRUE>>,
      <<<<" ">>, FALSE>>,
      <<S_image, TRUE>>,
      <<<<"i", "m", "a", "g", "e", "/">>, FALSE>>,
      <<<<"i", "m", "%", "/", "p", "n", "g">>, TRUE>> }

\* the registry cache as the class definition leaves it, nobody calling
RegIdle ==
    /\ lock = 0
    /\ iana_mime_types = None
    /\ iana_failed = FALSE
    /\ pc = [t \in Threads |-> "idle"]
    /\ kind = [t \in Threads |-> "none"]
    /\ value = [t \in Threads |-> <<>>]
    /\ strict_registry = [t \in Threads |-> FALSE]
    /\ root = [t \in Threads |-> <<>>]
    /\ idx = [t \in Threads |-> 0]
    /\ current_top = [t \in Threads |-> None]
    /\ mime_types = [t \in Threads |-> {}]
    /\ ret = [t \in Threads |-> None]
    /\ outcome = [t \in Threads |-> "none"]
    /\ fetches = 0
    /\ remote = DocImage

InitReg ==
    /\ lock = 0
    /\ iana_mime_types = None
    /\ iana_failed = FALSE
    /\ pc = [t \in Threads |-> "idle"]
    /\ kind = [t \in Threads |-> "none"]
    /\ value = [t \in Threads |-> <<>>]
    /\ strict_registry = [t \in Threads |-> FALSE]
    /\ root = [t \in Threads |-> <<>>]
    /\ idx = [t \in Threads |-> 0]
    /\ current_top = [t \in Threads |-> None]
    /\ mime_types = [t \in Threads |-> {}]
    /\ ret = [t \in Threads |-> None]
    /\ outcome = [t \in Threads |-> "none"]
    /\ fetches = 0
    /\ remote \in Docs

Goto(t, l) == pc' = [pc EXCEPT ![t] = l]

NoLocals(t) ==
    /\ root' = [root EXCEPT ![t] = <<>>]
    /\ idx' = [idx EXCEPT ![t] = 0]
    /\ current_top' = [current_top EXCEPT ![t] = None]
    /\ mime_types' = [mime_types EXCEPT ![t] = {}]

\* return r from _try_load_iana_mime_types; in a Type.__init__ the lines
\* 270-290 follow, which touch nothing shared
Return(t, r) ==
    /\ ret' = [ret EXCEPT ![t] = Some(r)]
    /\ outcome' = [outcome EXCEPT ![t] =
                      IF kind[t] = "ctor"
                      THEN TypeDecide(value[t], strict_registry[t], r)
                      ELSE "returned"]
    /\ Goto(t, "done")
    /\ NoLocals(t)

\* leaving the with block of line 200
Release(t) == lock' = IF lock = t THEN 0 ELSE lock

\* Type(val, strict_registry=strict): lines 249-269
TypeInit(t, val, strict) ==
    /\ pc[t] \in {"idle", "done"}
    /\ kind' = [kind EXCEPT ![t] = "ctor"]
    /\ value' = [value EXCEPT ![t] = val]
    /\ strict_registry' = [strict_registry EXCEPT ![t] = strict]
    /\ ret' = [ret EXCEPT ![t] = None]
    /\ IF TypeSyntaxError(val)
       THEN Goto(t, "done") /\ outcome' = [outcome EXCEPT ![t] = "ValueError"]
       ELSE Goto(t, "L195") /\ outcome' = [outcome EXCEPT ![t] = "none"]
    /\ UNCHANGED <<lock, iana_mime_types, iana_failed, root, idx, current_top,
                   mime_types, fetches, remote>>
    /\ UNCHANGED othersOfReg

\* Type._try_load_iana_mime_types() called directly
DirectCall(t) ==
    /\ pc[t] \in {"idle", "done"}
    /\ kind' = [kind EXCEPT ![t] = "direct"]
    /\ value' = [value EXCEPT ![t] = <<>>]
    /\ strict_registry' = [strict_registry EXCEPT ![t] = FALSE]
    /\ ret' = [ret EXCEPT ![t] = None]
    /\ outcome' = [outcome EXCEPT ![t] = "none"]
    /\ Goto(t, "L195")
    /\ UNCHANGED <<lock, iana_mime_types, iana_failed, root, idx, current_top,
                   mime_types, fetches, remote>>
    /\ UNCHANGED othersOfReg

\* line 195: if cls._iana_mime_types is not None
L195(t) ==
    /\ pc[t] = "L195"
    /\ Goto(t, IF ~IsNone(iana_mime_types) THEN "L196" ELSE "L197")
    /\ UNCHANGED <<lock, iana_mime_types, iana_failed, kind, value, strict_registry,
                   root, idx, current_top, mime_types, ret, outcome, fetches, remote>>
    /\ UNCHANGED othersOfReg

\* line 196: return cls._iana_mime_types
L196(t) ==
    /\ pc[t] = "L196"
    /\ Return(t, iana_mime_types)
    /\ UNCHANGED <<lock, iana_mime_types, iana_failed, kind, value, strict_registry,
                   fetches, remote>>
    /\ UNCHANGED othersOfReg

\* lines 197-198: if cls._iana_failed: return None
L197(t) ==
    /\ pc[t] = "L197"
    /\ IF iana_failed
       THEN Return(t, None)
       ELSE /\ Goto(t, "L200")
            /\ UNCHANGED <<ret, outcome, root, idx, current_top, mime_types>>
    /\ UNCHANGED <<lock, iana_mime_types, iana_failed, kind, value, strict_registry,
                   fetches, remote>>
    /\ UNCHANGED othersOfReg

\* the lock is free for thread t to take
LockFree(t) == lock = 0

\* line 200: with cls._lock
L200(t) ==
    /\ pc[t] = "L200"
    /\ LockFree(t)
    /\ lock' = t
    /\ Goto(t, "L201")
    /\ UNCHANGED <<iana_mime_types, iana_failed, kind, value, strict_registry,
                   root, idx, current_top, mime_types, ret, outcome, fetches, remote>>
    /\ UNCHANGED othersOfReg

\* line 201 left out: the cache is not looked at again under the lock
LockedLoaded_notRechecked == FALSE

\* the condition of line 201, read under the lock
LockedLoaded == ~IsNone(iana_mime_types)

\* line 201: if cls._iana_mime_types is not None
L201(t) ==
    /\ pc[t] = "L201"
    /\ Goto(t, IF LockedLoaded THEN "L202" ELSE "L203")
    /\ UNCHANGED <<lock, iana_mime_types, iana_failed, kind, value, strict_registry,
                   root, idx, current_top, mime_types, ret, outcome, fetches, remote>>
    /\ UNCHANGED othersOfReg

\* line 202: return cls._iana_mime_types
L202(t) ==
    /\ pc[t] = "L202"
    /\ Return(t, iana_mime_types)
    /\ Release(t)
    /\ UNCHANGED <<iana_mime_types, iana_failed, kind, value, strict_registry,
                   fetches, remote>>
    /\ UNCHANGED othersOfReg

\* line 203 left out: the failure flag is not looked at again under the lock
LockedFailed_notRechecked == FALSE

\* the condition of line 203, read under the lock
LockedFailed == iana_failed

\* lines 203-204: if cls._iana_failed: return None
L203(t) ==
    /\ pc[t] = "L203"
    /\ IF LockedFailed
       THEN Return(t, None) /\ Release(t)
       ELSE /\ Goto(t, "L207")
            /\ UNCHANGED <<lock, ret, outcome, root, idx, current_top, mime_types>>
    /\ UNCHANGED <<iana_mime_types, iana_failed, kind, value, strict_registry,
                   fetches, remote>>
    /\ UNCHANGED othersOfReg

\* lines 207-209 and 214-219: urlopen is invoked; either it, read or
\* ET.fromstring raises, or root is the parsed document and the loop starts
L207(t) ==
    /\ pc[t] = "L207"
    /\ fetches' = IF fetches < FetchCap THEN fetches + 1 ELSE fetches
    /\ \/ /\ Goto(t, "L211")
          /\ UNCHANGED <<root, idx, current_top, mime_types>>
       \/ /\ Goto(t, "L221")
          /\ root' = [root EXCEPT ![t] = remote]
          /\ idx' = [idx EXCEPT ![t] = 1]
          /\ current_top' = [current_top EXCEPT ![t] = None]
          /\ mime_types' = [mime_types EXCEPT ![t] = {}]
    /\ UNCHANGED <<lock, iana_mime_types, iana_failed, kind, value, strict_registry,
                   ret, outcome, remote>>
    /\ UNCHANGED othersOfReg

\* lines 210-212: except Exception: cls._iana_failed = True; return None
L211(t) ==
    /\ pc[t] = "L211"
    /\ iana_failed' = TRUE
    /\ Return(t, None)
    /\ Release(t)
    /\ UNCHANGED <<iana_mime_types, kind, value, strict_registry, fetches, remote>>
    /\ UNCHANGED othersOfReg

\* the set is filled in place in the class attribute instead of a local
Accumulate_inPlace(t, r) ==
    /\ current_top' = [current_top EXCEPT ![t] = r.top]
    /\ mime_types' = [mime_types EXCEPT ![t] = r.types]
    /\ iana_mime_types' = Some(r.types)

\* line 240: where the loop body puts what it parsed
Accumulate(t, r) ==
    /\ current_top' = [current_top EXCEPT ![t] = r.top]
    /\ mime_types' = [mime_types EXCEPT ![t] = r.types]
    /\ UNCHANGED iana_mime_types

\* lines 221-240: one iteration of for elem in root.iter(), or its end
L221(t) ==
    /\ pc[t] = "L221"
    /\ IF idx[t] <= Len(root[t])
       THEN /\ Accumulate(t, LoopBody(current_top[t], mime_types[t], root[t][idx[t]]))
            /\ idx' = [idx EXCEPT ![t] = idx[t] + 1]
            /\ UNCHANGED pc
       ELSE /\ Goto(t, "L242")
            /\ UNCHANGED <<idx, current_top, mime_types, iana_mime_types>>
    /\ UNCHANGED <<lock, iana_failed, kind, value, strict_registry, root,
                   ret, outcome, fetches, remote>>
    /\ UNCHANGED othersOfReg

\* the test of line 242 is left out: whatever was parsed is published
L242_cacheEmpty(t) ==
    /\ pc[t] = "L242"
    /\ Goto(t, "L246")
    /\ UNCHANGED <<iana_failed, lock, ret, outcome, root, idx, current_top,
                   mime_types>>
    /\ UNCHANGED <<iana_mime_types, kind, value, strict_registry, fetches, remote>>
    /\ UNCHANGED othersOfReg

\* lines 242-244: if not mime_types: cls._iana_failed = True; return None
L242(t) ==
    /\ pc[t] = "L242"
    /\ IF mime_types[t] = {}
       THEN /\ iana_failed' = TRUE
            /\ Return(t, None)
            /\ Release(t)
       ELSE /\ Goto(t, "L246")
            /\ UNCHANGED <<iana_failed, lock, ret, outcome, root, idx, current_top,
                           mime_types>>
    /\ UNCHANGED <<iana_mime_types, kind, value, strict_registry, fetches, remote>>
    /\ UNCHANGED othersOfReg

\* line 246: cls._iana_mime_types = mime_types
L246(t) ==
    /\ pc[t] = "L246"
    /\ iana_mime_types' = Some(mime_types[t])
    /\ Goto(t, "L247")
    /\ UNCHANGED <<lock, iana_failed, kind, value, strict_registry, root, idx,
                   current_top, mime_types, ret, outcome, fetches, remote>>
    /\ UNCHANGED othersOfReg

\* line 247: return cls._iana_mime_types
L247(t) ==
    /\ pc[t] = "L247"
    /\ Return(t, iana_mime_types)
    /\ Release(t)
    /\ UNCHANGED <<iana_mime_types, iana_failed, kind, value, strict_registry,
                   fetches, remote>>
    /\ UNCHANGED othersOfReg

Init == InitReg /\ RelIdle /\ LangIdle /\ ElIdle /\ PageIdle

Next ==
    \E t \in Threads :
        \/ \E c \in ThreadCalls : TypeInit(t, c[1], c[2])
        \/ DirectCall(t)
        \/ L195(t) \/ L196(t) \/ L197(t)
        \/ L200(t) \/ L201(t) \/ L202(t) \/ L203(t)
        \/ L207(t) \/ L211(t) \/ L221(t)
        \/ L242(t) \/ L246(t) \/ L247(t)

Spec == Init /\ [][Next]_vars

-----------------------------------------------------------------------------
(* Properties of the registry cache under Spec *)

LoadLines == {"L195", "L196", "L197", "L200", "L201", "L202", "L203",
              "L207", "L211", "L221", "L242", "L246", "L247"}

\* a thread between the urlopen of line 207 and its return: a fetch is outstanding
Fetching == {"L211", "L221", "L242", "L246", "L247"}

\* C1: whatever the interleaving, urlopen is invoked at most once over the
\* whole run; while a fetch is outstanding its thread holds the lock, so that
\* no other thread is past line 200 and none starts a second fetch.
C1_FetchAtMostOnce ==
    /\ fetches <= 1
    /\ \A t \in Threads :
           pc[t] \in Fetching =>
               /\ lock = t
               /\ \A u \in Threads \ {t} : pc[u] \notin (Fetching \cup {"L201", "L202", "L203", "L207"})

\* a second caller waits at the lock while the first one parses what it fetched
C1_Witness ==
    \E t, u \in Threads :
        t # u /\ pc[t] = "L221" /\ fetches = 1 /\ pc[u] = "L200"

\* the fetch has failed: the exception is caught, or the failure is recorded
FetchHasFailed == iana_failed \/ \E t \in Threads : pc[t] = "L211"

\* thread t returns from _try_load_iana_mime_types in this step
Returns(t) == pc[t] \in LoadLines /\ pc'[t] = "done"

\* C2: once a fetch has failed the failure stays: no later step invokes
\* urlopen, and every call that returns from then on returns None.
C2_FailurePermanent ==
    [][FetchHasFailed =>
          /\ FetchHasFailed'
          /\ IsNone(iana_mime_types')
          /\ \A t \in Threads :
                /\ ~(pc[t] = "L207" /\ pc'[t] # "L207")
                /\ Returns(t) => ret'[t] = Some(None)]_vars

\* after the failure, a caller that waited at the lock is at line 203 and another
\* call has already returned None
C2_Witness ==
    /\ iana_failed
    /\ \E t, u \in Threads :
           /\ t # u
           /\ pc[t] = "L203"
           /\ pc[u] = "done" /\ ret[u] = Some(None)

\* C3: the class attribute is None or the complete set parsed from the fetched
\* document, and every registry a call returned is that complete set.
C3_NeverHalfPopulated ==
    /\ IsNone(iana_mime_types) \/ Get(iana_mime_types) = ParseAll(remote)
    /\ \A t \in Threads :
           (~IsNone(ret[t]) /\ ~IsNone(Get(ret[t]))) =>
               Get(Get(ret[t])) = ParseAll(remote)

\* one thread has parsed part of a document of two types while another thread
\* is reading the class attribute
C3_Witness ==
    \E t, u \in Threads :
        /\ t # u
        /\ pc[t] = "L221"
        /\ mime_types[t] # {}
        /\ mime_types[t] # ParseAll(remote)
        /\ pc[u] \in {"L195", "L196"}

\* the three states of the registry cache
Loaded == ~IsNone(iana_mime_types)
Failed == iana_failed /\ IsNone(iana_mime_types)
Unloaded == ~iana_failed /\ IsNone(iana_mime_types)

\* thread t has fetched and parsed the document, and found no media type in it
ParsedNothing(t) == pc[t] = "L242" /\ mime_types[t] = {}

\* C11: the cache is unloaded, loaded or failed and only leaves unloaded:
\* _iana_mime_types is never non-None while _iana_failed is true, a loaded
\* registry is never the empty set, a loaded or failed cache never changes
\* again, and a fetch that parsed to no entry is recorded as a failure and
\* not cached.
C11_ThreeStates ==
    /\ [](/\ ~(~IsNone(iana_mime_types) /\ iana_failed)
          /\ Loaded => Get(iana_mime_types) # {})
    /\ [][/\ Loaded => (Loaded' /\ iana_mime_types' = iana_mime_types)
          /\ Failed => Failed'
          /\ \A t \in Threads :
                 (ParsedNothing(t) /\ pc'[t] # pc[t]) => Failed']_vars

\* the fetch succeeded and the document held no media type: the thread is
\* at the test of line 242 with an empty set, the cache still unloaded,
\* while another caller waits at the lock
C11_Witness ==
    \E t, u \in Threads :
        /\ t # u
        /\ ParsedNothing(t)
        /\ root[t] = DocNoTypes
        /\ fetches = 1
        /\ Unloaded
        /\ pc[u] = "L200"

\* the cases of the claim, stated on the input: empty, no '/', an empty
\* type or subtype, a type or subtype that is no token
SyntacticallyInvalid(val) ==
    LET v == StrStrip(val)
        main == StrStrip(StrSplit(v, ";")[1])
        k == FirstIndex("/", main)
        t == StrStrip(SubSeq(main, 1, k - 1))
        sub == StrStrip(SubSeq(main, k + 1, Len(main)))
    IN  \/ v = <<>>
        \/ ~Contains("/", main)
        \/ t = <<>>
        \/ sub = <<>>
        \/ \E i \in 1..Len(t) : t[i] \notin TokenChars
        \/ \E i \in 1..Len(sub) : sub[i] \notin TokenChars

\* thread t starts an activation in this step
Starts(t) ==
    /\ pc[t] \in {"idle", "done"}
    /\ <<pc[t], kind[t], value[t], strict_registry[t], outcome[t], ret[t]>>
           # <<pc'[t], kind'[t], value'[t], strict_registry'[t], outcome'[t], ret'[t]>>

\* C10: a Type construction from a syntactically invalid value raises ValueError
\* at once: it never calls _try_load_iana_mime_types, so it takes no lock,
\* fetches nothing and leaves _iana_mime_types and _iana_failed as they were.
C10_SyntaxBeforeRegistry ==
    [][\A t \in Threads :
          (Starts(t) /\ kind'[t] = "ctor" /\ SyntacticallyInvalid(value'[t])) =>
              /\ pc'[t] = "done"
              /\ outcome'[t] = "ValueError"
              /\ IsNone(ret'[t])
              /\ UNCHANGED <<lock, iana_mime_types, iana_failed, fetches>>]_vars

\* a construction from a value that is no token has raised ValueError while the
\* registry is still unloaded and the lock is free
C10_Witness ==
    \E t \in Threads :
        /\ pc[t] = "done" /\ kind[t] = "ctor"
        /\ value[t] = <<"i", "m", "%", "/", "p", "n", "g">>
        /\ outcome[t] = "ValueError"
        /\ IsNone(iana_mime_types) /\ ~iana_failed /\ lock = 0 /\ fetches = 0

-----------------------------------------------------------------------------
(* Type.__init__ and _try_load_iana_mime_types run by a single thread, each *)
(* call to completion: the specification of the constructor as a function  *)
(* of its value, of strict_registry and of the state of the registry.      *)

TypeAlphabet == {"a", "B", "/", ";", " ", "%"}

S_text_css == <<"t", "e", "x", "t", "/", "c", "s", "s">>

\* values that are, or are not, in the documents and in the fallback set
TypeExtras ==
    { S_image_png,
      <<"I", "m", "a", "g", "e", "/", "P", "N", "G">>,
      <<"i", "m", "a", "g", "e", " ", "/", " ", "p", "n", "g">>,
      <<" ", "i", "m", "a", "g", "e", "/", "p", "n", "g", " ", ";", " ", "q", "=", "1">>,
      <<"i", "m", "a", "g", "e", "/", "p", "n", "g", "/", "x">>,
      <<"i", "m", "a", "g", "e", "/", "p", "%", "g">>,
      <<"i", "m", "a", "g", "e", "/", "x">>,
      S_text_css,
      <<"T", "E", "X", "T", "/", "b">>,
      <<"f", "o", "n", "t", "/", "z", "z">> }

TypeInputs ==
    UNION {[1..n -> TypeAlphabet] : n \in 0..MaxTypeLen} \cup TypeExtras

InitType ==
    /\ lock = 0
    /\ iana_mime_types = None
    /\ iana_failed = FALSE
    /\ pc = [t \in Threads |-> "idle"]
    /\ kind = [t \in Threads |-> "none"]
    /\ \E val \in TypeInputs : value = [t \in Threads |-> IF t = 1 THEN val ELSE <<>>]
    /\ \E strict \in BOOLEAN :
           strict_registry = [t \in Threads |-> IF t = 1 THEN strict ELSE FALSE]
    /\ root = [t \in Threads |-> <<>>]
    /\ idx = [t \in Threads |-> 0]
    /\ current_top = [t \in Threads |-> None]
    /\ mime_types = [t \in Threads |-> {}]
    /\ ret = [t \in Threads |-> None]
    /\ outcome = [t \in Threads |-> "none"]
    /\ fetches = 0
    /\ remote \in Docs
    /\ RelIdle
    /\ LangIdle
    /\ ElIdle
    /\ PageIdle

\* what lines 207-209 give: None when urlopen, read or ET.fromstring raises,
\* else the document
Fetched(answers) == IF answers THEN Some(remote) ELSE None

\* lines 194-247 without interruption; answers tells whether the fetch works
LoadSeq(t, answers) ==
    IF ~IsNone(iana_mime_types)                                   \* lines 195-196
    THEN /\ ret' = [ret EXCEPT ![t] = Some(iana_mime_types)]
         /\ UNCHANGED <<iana_mime_types, iana_failed, fetches>>
    ELSE IF iana_failed                                           \* lines 197-198
    THEN /\ ret' = [ret EXCEPT ![t] = Some(None)]
         /\ UNCHANGED <<iana_mime_types, iana_failed, fetches>>
    ELSE /\ fetches' = IF fetches < FetchCap THEN fetches + 1 ELSE fetches
         /\ IF IsNone(Fetched(answers)) \/ ParseAll(Get(Fetched(answers))) = {}     \* lines 210-212, 242-244
            THEN /\ iana_failed' = TRUE
                 /\ ret' = [ret EXCEPT ![t] = Some(None)]
                 /\ UNCHANGED iana_mime_types
            ELSE /\ iana_mime_types' = Some(ParseAll(Get(Fetched(answers))))   \* lines 246-247
                 /\ ret' = [ret EXCEPT ![t] = Some(Some(ParseAll(Get(Fetched(answers)))))]
                 /\ UNCHANGED iana_failed

\* Type(value[1], strict_registry=strict_registry[1]), lines 249-290
TypeSeq(answers) ==
    /\ pc[1] \in {"idle", "done"}
    /\ Goto(1, "done")
    /\ kind' = [kind EXCEPT ![1] = "ctor"]
    /\ IF TypeSyntaxError(value[1])
       THEN /\ outcome' = [outcome EXCEPT ![1] = "ValueError"]
            /\ ret' = [ret EXCEPT ![1] = None]
            /\ UNCHANGED <<iana_mime_types, iana_failed, fetches>>
       ELSE /\ LoadSeq(1, answers)
            /\ outcome' = [outcome EXCEPT ![1] =
                              TypeDecide(value[1], strict_registry[1], Get(ret'[1]))]
    /\ UNCHANGED <<lock, value, strict_registry, root, idx, current_top, mime_types,
                   remote>>
    /\ UNCHANGED othersOfReg

\* Type._try_load_iana_mime_types() called directly
DirectSeq(answers) ==
    /\ pc[1] \in {"idle", "done"}
    /\ Goto(1, "done")
    /\ kind' = [kind EXCEPT ![1] = "direct"]
    /\ LoadSeq(1, answers)
    /\ outcome' = [outcome EXCEPT ![1] = "returned"]
    /\ UNCHANGED <<lock, value, strict_registry, root, idx, current_top, mime_types,
                   remote>>
    /\ UNCHANGED othersOfReg

NextType ==
    \E answers \in BOOLEAN : TypeSeq(answers) \/ DirectSeq(answers)

SpecType == InitType /\ [][NextType]_vars

-----------------------------------------------------------------------------
(* Properties of Type.__init__ under SpecType *)

\* the main part of the input: the text before the first ';', trimmed
MainPart(val) == StrStrip(StrSplit(StrStrip(val), ";")[1])

SlashCount(s) == Cardinality({i \in 1..Len(s) : s[i] = "/"})

\* the text of the main part before and after its first '/'
RawType(val) == SubSeq(MainPart(val), 1, FirstIndex("/", MainPart(val)) - 1)
RawSubtype(val) ==
    SubSeq(MainPart(val), FirstIndex("/", MainPart(val)) + 1, Len(MainPart(val)))

IsToken(s) == s # <<>> /\ \A i \in 1..Len(s) : s[i] \in TokenChars

\* the syntactically valid inputs, and their lower-cased candidate
SyntacticallyValid(val) ==
    /\ SlashCount(MainPart(val)) = 1
    /\ IsToken(StrStrip(RawType(val)))
    /\ IsToken(StrStrip(RawSubtype(val)))

CandidateOf(val) ==
    StrLower(StrStrip(RawType(val)) \o <<"/">> \o StrStrip(RawSubtype(val)))

Constructed == pc[1] = "done" /\ kind[1] = "ctor"

\* C4: for a syntactically valid value the outcome is decided by the registry
\* the lookup returned and by strict_registry: with a registry, ok iff the
\* candidate is a member, else ValueError; without one, RuntimeError when
\* strict_registry, else ok iff the candidate is in the fallback set, else
\* ValueError.
C4_OutcomeByRegistryAndStrict ==
    (Constructed /\ SyntacticallyValid(value[1])) =>
        /\ ret[1] = Some(iana_mime_types)
        /\ ~IsNone(iana_mime_types) =>
               outcome[1] = IF CandidateOf(value[1]) \in Get(iana_mime_types)
                            THEN "ok" ELSE "ValueError"
        /\ (IsNone(iana_mime_types) /\ strict_registry[1]) => outcome[1] = "RuntimeError"
        /\ (IsNone(iana_mime_types) /\ ~strict_registry[1]) =>
               outcome[1] = IF CandidateOf(value[1]) \in FALLBACK_KNOWN
                            THEN "ok" ELSE "ValueError"

\* image/png, which is in the fallback set, is refused with RuntimeError when the
\* registry is unavailable and strict_registry is set
C4_Witness ==
    /\ Constructed
    /\ value[1] = S_image_png
    /\ strict_registry[1]
    /\ iana_failed
    /\ outcome[1] = "RuntimeError"

\* C7 as stated: the type and the subtype are the text before and after the '/'
\* of the main part; a main part without exactly one '/', or a type or subtype
\* that is empty or holds a character that is no token character, makes the
\* construction raise ValueError.
C7_Original ==
    (Constructed /\ (\/ SlashCount(MainPart(value[1])) # 1
                     \/ ~IsToken(RawType(value[1]))
                     \/ ~IsToken(RawSubtype(value[1])))) =>
        outcome[1] = "ValueError"

\* C7 amended: the type and the subtype are trimmed of surrounding whitespace
\* before they are tested; a main part without exactly one '/', or a trimmed
\* type or subtype that is empty or holds a character that is no token
\* character, makes the construction raise ValueError, whatever the registry.
C7_ExactlyOneSlashAndTokens ==
    (Constructed /\ (\/ SlashCount(MainPart(value[1])) # 1
                     \/ ~IsToken(StrStrip(RawType(value[1])))
                     \/ ~IsToken(StrStrip(RawSubtype(value[1]))))) =>
        /\ outcome[1] = "ValueError"
        /\ IsNone(ret[1])

\* image/png/x has raised ValueError although the registry is unavailable and
\* strict_registry is set
C7_Witness ==
    /\ Constructed
    /\ value[1] = <<"i", "m", "a", "g", "e", "/", "p", "n", "g", "/", "x">>
    /\ strict_registry[1]
    /\ iana_failed
    /\ outcome[1] = "ValueError"

-----------------------------------------------------------------------------
(* Rel (attributes.py:121-135) *)

RelV(val) == StrStrip(val)                                        \* line 122
RelTokens(val) == StrSplitWs(RelV(val))                           \* line 126
RelLowered(val) ==                                                \* line 127
    [i \in 1..Len(RelTokens(val)) |-> StrLower(RelTokens(val)[i])]

\* the tokens are compared as written, not lower-cased
RelDuplicate_caseSensitive(val) ==
    Cardinality({RelTokens(val)[i] : i \in 1..Len(RelTokens(val))}) # Len(RelTokens(val))

\* line 129: len(set(lowered)) != len(lowered)
RelDuplicate(val) ==
    Cardinality({RelLowered(val)[i] : i \in 1..Len(RelLowered(val))}) # Len(RelLowered(val))

RelRaises(val) == RelV(val) = <<>> \/ RelDuplicate(val)           \* lines 123, 129
RelValue(val) == StrJoin(<<" ">>, RelLowered(val))                \* line 132

\* Rel.render, line 135
RelRender(v) == <<"r", "e", "l", "=", "\"">> \o v \o <<"\"">>

RelAlphabet == {"a", "A", "b", " ", "\t"}

S_icon_preload == <<"i", "c", "o", "n", " ", "p", "r", "e", "l", "o", "a", "d">>
S_ICON_Icon == <<"I", "C", "O", "N", " ", "I", "c", "o", "n">>

RelInputs ==
    UNION {[1..n -> RelAlphabet] : n \in 0..MaxRelLen}
        \cup {S_icon_preload, S_ICON_Icon,
              <<" ", "P", "r", "e", "l", "o", "a", "d", "\t", " ", "i", "c", "o", "n", " ">>}

InitRel ==
    /\ rel_arg \in RelInputs
    /\ rel_state = "new"
    /\ rel_self = None
    /\ rel_out = None
    /\ RegIdle
    /\ LangIdle
    /\ ElIdle
    /\ PageIdle

\* Rel(rel_arg)
RelInit ==
    /\ rel_state = "new"
    /\ IF RelRaises(rel_arg)
       THEN rel_state' = "raised" /\ rel_self' = None
       ELSE rel_state' = "built" /\ rel_self' = Some(RelValue(rel_arg))
    /\ UNCHANGED <<rel_arg, rel_out, regVars, langVars, elVars, pageVars>>

\* self.render()
RelRenderCall ==
    /\ rel_state = "built"
    /\ rel_out' = Some(RelRender(Get(rel_self)))
    /\ UNCHANGED <<rel_arg, rel_state, rel_self, regVars, langVars, elVars, pageVars>>

NextRel == RelInit \/ RelRenderCall

SpecRel == InitRel /\ [][NextRel]_vars

-----------------------------------------------------------------------------
(* Properties of Rel under SpecRel *)

\* where the whitespace-separated tokens of s start, and where each ends
TokStarts(s) == {i \in 1..Len(s) : ~IsSpace(s[i]) /\ (i = 1 \/ IsSpace(s[i - 1]))}
TokEnd(s, i) ==
    CHOOSE j \in i..Len(s) :
        /\ \A k \in i..j : ~IsSpace(s[k])
        /\ j = Len(s) \/ IsSpace(s[j + 1])
TokAt(s, i) == SubSeq(s, i, TokEnd(s, i))

\* the tokens of s, lower-cased, in the order they occur in s
RECURSIVE LoweredFrom(_, _)
LoweredFrom(s, starts) ==
    IF starts = {} THEN <<>>
    ELSE LET i == CHOOSE i \in starts : \A j \in starts : i <= j
         IN  <<StrLower(TokAt(s, i))>> \o LoweredFrom(s, starts \ {i})

\* C8: a Rel from an input without token, or with two tokens equal ignoring
\* case, raises ValueError; any other input gives the tokens lower-cased, in
\* their order, separated by exactly one space, and render gives rel="value".
C8_RelTokens ==
    rel_state # "new" =>
        LET starts == TokStarts(rel_arg)
            clash == \E i, j \in starts :
                         i # j /\ StrLower(TokAt(rel_arg, i)) = StrLower(TokAt(rel_arg, j))
        IN  /\ rel_state = "raised" <=> (starts = {} \/ clash)
            /\ rel_state = "raised" => IsNone(rel_self) /\ IsNone(rel_out)
            /\ rel_state = "built" =>
                   /\ StrSplit(Get(rel_self), " ") = LoweredFrom(rel_arg, starts)
                   /\ ~IsNone(rel_out) =>
                          Get(rel_out) = <<"r", "e", "l", "=", "\"">> \o Get(rel_self) \o <<"\"">>

\* "icon preload" is built and renders rel="icon preload"
C8_Witness ==
    /\ rel_arg = S_icon_preload
    /\ rel_state = "built"
    /\ rel_out = Some(<<"r", "e", "l", "=", "\"", "i", "c", "o", "n", " ",
                        "p", "r", "e", "l", "o", "a", "d", "\"">>)

-----------------------------------------------------------------------------
(* Lang (attributes.py:47-60).  langcodes is an external library: its       *)
(* parser is an oracle, here the tags language[-region] with a language of  *)
(* two or three letters and a region of two letters, '_' read as '-'; the   *)
(* canonical tag has the language in lower case and the region in upper     *)
(* case.                                                                    *)

IsAlpha(s) == \A i \in 1..Len(s) : s[i] \in Letters

LangSubtags(tag) == StrSplit([i \in 1..Len(tag) |-> IF tag[i] = "_" THEN "-" ELSE tag[i]], "-")

\* langcodes.Language.get(tag) returns, rather than raising LanguageTagError
LangcodesAccepts(tag) ==
    LET subtags == LangSubtags(tag)
    IN  /\ Len(subtags) \in {1, 2}
        /\ Len(subtags[1]) \in {2, 3} /\ IsAlpha(subtags[1])
        /\ Len(subtags) = 2 => (Len(subtags[2]) = 2 /\ IsAlpha(subtags[2]))

\* langcodes.Language.get(tag).to_tag()
LangcodesToTag(tag) ==
    LET subtags == LangSubtags(tag)
    IN  IF Len(subtags) = 1 THEN StrLower(subtags[1])
        ELSE StrLower(subtags[1]) \o <<"-">> \o StrUpper(subtags[2])

\* the value is kept as given, line 55 without to_tag
LangStored_asGiven(val) == val

\* lines 49-55: what self.value becomes when no exception is raised
LangStored(val) == IF val = <<>> THEN val ELSE LangcodesToTag(val)

\* lines 53-57: the construction raises ValueError
LangRaises(val) == val # <<>> /\ ~LangcodesAccepts(val)

\* Lang.render, line 60
LangRender(v) == <<"l", "a", "n", "g", "=", "\"">> \o v \o <<"\"">>

LangAlphabet == {"e", "N", "-"}

S_fr_ca == <<"f", "r", "-", "c", "a">>
S_fr_CA == <<"f", "r", "-", "C", "A">>
S_english == <<"e", "n", "g", "l", "i", "s", "h">>

LangInputs ==
    UNION {[1..n -> LangAlphabet] : n \in 0..MaxLangLen}
        \cup {S_fr_ca, S_fr_CA, S_english, <<"E", "N", "_", "u", "s">>, <<"e", "n">>}

InitLang ==
    /\ lang_arg \in LangInputs
    /\ lang_state = "new"
    /\ lang_self = None
    /\ lang_out = None
    /\ lang_prev = None
    /\ RegIdle
    /\ RelIdle
    /\ ElIdle
    /\ PageIdle

\* Lang(lang_arg)
LangInit ==
    /\ lang_state = "new"
    /\ IF LangRaises(lang_arg)
       THEN lang_state' = "raised" /\ lang_self' = None
       ELSE lang_state' = "built" /\ lang_self' = Some(LangStored(lang_arg))
    /\ UNCHANGED <<lang_arg, lang_out, lang_prev, regVars, relVars, elVars, pageVars>>

\* self.render()
LangRenderCall ==
    /\ lang_state = "built"
    /\ lang_out' = Some(LangRender(Get(lang_self)))
    /\ UNCHANGED <<lang_arg, lang_state, lang_self, lang_prev, regVars, relVars, elVars, pageVars>>

\* the caller takes the value of the Lang it has to construct another Lang
LangAgain ==
    /\ lang_state = "built"
    /\ lang_prev' = lang_self
    /\ lang_arg' = Get(lang_self)
    /\ lang_state' = "new"
    /\ lang_self' = None
    /\ lang_out' = None
    /\ UNCHANGED <<regVars, relVars, elVars, pageVars>>

NextLang == LangInit \/ LangRenderCall \/ LangAgain

SpecLang == InitLang /\ [][NextLang]_vars

-----------------------------------------------------------------------------
(* Properties of Lang under SpecLang *)

\* C9: "" is accepted and renders lang=""; a non-empty string the parser
\* rejects raises ValueError and leaves no instance; an accepted string is
\* stored as its canonical tag; a Lang constructed from the value of a Lang
\* has that same value.
C9_LangCanonical ==
    lang_state # "new" =>
        /\ lang_arg = <<>> =>
               /\ lang_state = "built" /\ lang_self = Some(<<>>)
               /\ ~IsNone(lang_out) => Get(lang_out) = <<"l", "a", "n", "g", "=", "\"", "\"">>
        /\ (lang_arg # <<>> /\ ~LangcodesAccepts(lang_arg)) =>
               lang_state = "raised" /\ IsNone(lang_self) /\ IsNone(lang_out)
        /\ (lang_arg # <<>> /\ LangcodesAccepts(lang_arg)) =>
               lang_state = "built" /\ lang_self = Some(LangcodesToTag(lang_arg))
        /\ ~IsNone(lang_prev) => lang_state = "built" /\ lang_self = lang_prev
        /\ ~IsNone(lang_out) =>
               Get(lang_out) = <<"l", "a", "n", "g", "=", "\"">> \o Get(lang_self) \o <<"\"">>

\* fr-ca was stored as fr-CA, and the Lang constructed from fr-CA renders
\* lang="fr-CA"
C9_Witness ==
    /\ lang_prev = Some(S_fr_CA)
    /\ lang_arg = S_fr_CA
    /\ lang_state = "built"
    /\ lang_out = Some(<<"l", "a", "n", "g", "=", "\"", "f", "r", "-", "C", "A", "\"">>)

-----------------------------------------------------------------------------
(* Elements (elements.py).  An object is its class and its __dict__: the    *)
(* entries key, value in the order the keys were first assigned.            *)

VNone == [t |-> "none", cls |-> "", v |-> <<>>, items |-> <<>>]
VAttr(cls, v) == [t |-> "attr", cls |-> cls, v |-> v, items |-> <<>>]   \* an Attribute
VList(items) == [t |-> "list", cls |-> "", v |-> <<>>, items |-> items] \* a list of elements
VStr(v) == [t |-> "str", cls |-> "", v |-> v, items |-> <<>>]

Entry(key, val) == [key |-> key, val |-> val]

HasKey(d, key) == \E i \in 1..Len(d) : d[i].key = key
DictGet(d, key) == d[CHOOSE i \in 1..Len(d) : d[i].key = key].val

\* the assignment deletes the key and inserts it again, at the end
DictSet_moveToEnd(d, key, val) ==
    Append(SelectSeq(d, LAMBDA e : e.key # key), Entry(key, val))

\* self.key = val: a key the dict has keeps its place, a new key goes last
DictSet(d, key, val) ==
    IF HasKey(d, key)
    THEN [i \in 1..Len(d) |-> IF d[i].key = key THEN Entry(key, val) ELSE d[i]]
    ELSE Append(d, Entry(key, val))

\* the render methods of the attributes: key="value"
AttrKey(cls) ==
    CASE cls = "Lang" -> <<"l", "a", "n", "g">>
      [] cls = "Dir" -> <<"d", "i", "r">>
      [] cls = "Charset" -> <<"c", "h", "a", "r", "s", "e", "t">>
      [] cls = "Name" -> <<"n", "a", "m", "e">>
      [] cls = "Content" -> <<"c", "o", "n", "t", "e", "n", "t">>
      [] cls = "Rel" -> <<"r", "e", "l">>
      [] cls = "Href" -> <<"h", "r", "e", "f">>
      [] cls = "Type" -> <<"t", "y", "p", "e">>
      [] cls = "Sizes" -> <<"s", "i", "z", "e", "s">>

AttrRender(a) == AttrKey(a.cls) \o <<"=", "\"">> \o a.v \o <<"\"">>

\* lines 23-27: the renderings of the values of __dict__ that are Attributes
RECURSIVE Rendered(_)
Rendered(d) ==
    IF d = <<>> THEN <<>>
    ELSE (IF Head(d).val.t = "attr" THEN <<AttrRender(Head(d).val)>> ELSE <<>>)
             \o Rendered(Tail(d))

\* AttributedElement.render_attributes, lines 22-32
render_attributes(d) ==
    IF Rendered(d) = <<>> THEN <<>> ELSE <<" ">> \o StrJoin(<<" ">>, Rendered(d))

\* the constructors, each assigning its attributes in the order of its body
NewDocType == [cls |-> "DocType", dict |-> <<>>]
NewHTML(lang, dir_, children) ==                                  \* lines 54-62
    [cls |-> "HTML",
     dict |-> DictSet(DictSet(DictSet(<<>>, "children", VList(children)),
                              "lang", lang), "dir", dir_)]
NewHead(children) == [cls |-> "Head", dict |-> DictSet(<<>>, "children", VList(children))]
NewBody(children) == [cls |-> "Body", dict |-> DictSet(<<>>, "children", VList(children))]
NewTitle(v) == [cls |-> "Title", dict |-> DictSet(<<>>, "value", VStr(v))]
NewMetaCharset(charset) ==                                        \* lines 107-108
    [cls |-> "MetaCharset", dict |-> DictSet(<<>>, "charset", charset)]
NewMetaViewport(name, content) ==                                 \* lines 117-119
    [cls |-> "MetaViewport",
     dict |-> DictSet(DictSet(<<>>, "name", name), "content", content)]
NewLinkIcon(rel, href, type_, sizes) ==                           \* lines 134-144
    [cls |-> "LinkIcon",
     dict |-> DictSet(DictSet(DictSet(DictSet(<<>>, "rel", rel), "href", href),
                              "type", type_), "sizes", sizes)]

S_doctype == <<"<", "!", "D", "O", "C", "T", "Y", "P", "E", " ", "h", "t", "m", "l", ">">>

RECURSIVE Render(_, _)
RECURSIVE render_children(_, _)
RECURSIVE render_children_reversed(_, _)

\* the children are joined last first
render_children_reversed(h, ids) ==
    IF ids = <<>> THEN <<>>
    ELSE render_children_reversed(h, Tail(ids)) \o Render(h, h[Head(ids)])

\* ContainerElement.render_children, lines 40-41
render_children(h, ids) ==
    IF ids = <<>> THEN <<>>
    ELSE Render(h, h[Head(ids)]) \o render_children(h, Tail(ids))

\* the render method of object o, whose children are in heap h
Render(h, o) ==
    CASE o.cls = "DocType" -> S_doctype                           \* line 48
      [] o.cls = "HTML" ->                                        \* line 65
             <<"<", "h", "t", "m", "l">> \o render_attributes(o.dict) \o <<">">>
                 \o render_children(h, DictGet(o.dict, "children").items)
                 \o <<"<", "/", "h", "t", "m", "l", ">">>
      [] o.cls = "Head" ->                                        \* line 72
             <<"<", "h", "e", "a", "d", ">">>
                 \o render_children(h, DictGet(o.dict, "children").items)
                 \o <<"<", "/", "h", "e", "a", "d", ">">>
      [] o.cls = "Body" ->                                        \* line 78
             <<"<", "b", "o", "d", "y", ">">>
                 \o render_children(h, DictGet(o.dict, "children").items)
                 \o <<"<", "/", "b", "o", "d", "y", ">">>
      [] o.cls = "Title" ->                                       \* line 87
             <<"<", "t", "i", "t", "l", "e", ">">> \o DictGet(o.dict, "value").v
                 \o <<"<", "/", "t", "i", "t", "l", "e", ">">>
      [] o.cls \in {"MetaCharset", "MetaViewport"} ->             \* line 98
             <<"<", "m", "e", "t", "a">> \o render_attributes(o.dict) \o <<">">>
      [] o.cls = "LinkIcon" ->                                    \* line 125
             <<"<", "l", "i", "n", "k">> \o render_attributes(o.dict) \o <<">">>

\* attribute instances
A_lang_en == VAttr("Lang", <<"e", "n">>)
A_dir_ltr == VAttr("Dir", <<"l", "t", "r">>)
A_charset_utf8 == VAttr("Charset", <<"u", "t", "f", "-", "8">>)
A_charset_latin1 == VAttr("Charset", <<"l", "a", "t", "i", "n", "-", "1">>)
A_name == VAttr("Name", <<"v", "i", "e", "w", "p", "o", "r", "t">>)
A_content == VAttr("Content", <<"w", "=", "1">>)
A_rel == VAttr("Rel", <<"i", "c", "o", "n">>)
A_href == VAttr("Href", <<"/", "f", ".", "i", "c", "o">>)
A_type == VAttr("Type", S_image_png)
A_sizes == VAttr("Sizes", <<"a", "n", "y">>)

\* the attributes the constructor of a class assigns that may hold an Attribute
SlotsOf(cls) ==
    CASE cls = "HTML" -> {"lang", "dir"}
      [] cls = "MetaCharset" -> {"charset"}
      [] cls = "MetaViewport" -> {"name", "content"}
      [] cls = "LinkIcon" -> {"rel", "href", "type", "sizes"}

\* what the callers assign to the slots of an element of a class
AssignPool(cls) ==
    {VNone} \cup
        CASE cls = "HTML" -> {A_lang_en, A_dir_ltr}
          [] cls = "MetaCharset" -> {A_charset_utf8, A_charset_latin1}
          [] cls = "MetaViewport" -> {A_name, A_content}
          [] cls = "LinkIcon" -> {A_rel, A_href, A_type, A_sizes}

InitEl == ElIdle /\ RegIdle /\ RelIdle /\ LangIdle /\ PageIdle

elFrame == <<el_hist, el_attrs, el_out, regVars, relVars, langVars, pageVars>>

\* HTML(lang=..., dir_=..., children=None)
ConstructHTML ==
    /\ el = NoElement
    /\ \E lang \in {VNone, A_lang_en}, dir_ \in {VNone, A_dir_ltr} :
           el' = NewHTML(lang, dir_, <<>>)
    /\ UNCHANGED elFrame

\* MetaCharset(charset)
ConstructMetaCharset ==
    /\ el = NoElement
    /\ \E c \in {A_charset_utf8, A_charset_latin1} : el' = NewMetaCharset(c)
    /\ UNCHANGED elFrame

\* MetaViewport(name, content)
ConstructMetaViewport ==
    /\ el = NoElement
    /\ el' = NewMetaViewport(A_name, A_content)
    /\ UNCHANGED elFrame

\* LinkIcon(rel, href, type_=..., sizes=...)
ConstructLinkIcon ==
    /\ el = NoElement
    /\ \E type_ \in {VNone, A_type}, sizes \in {VNone, A_sizes} :
           el' = NewLinkIcon(A_rel, A_href, type_, sizes)
    /\ UNCHANGED elFrame

\* el.slot = val
SetAttr ==
    /\ el # NoElement
    /\ Len(el_hist) < MaxAssign
    /\ \E slot \in SlotsOf(el.cls), val \in AssignPool(el.cls) :
           /\ el' = [el EXCEPT !.dict = DictSet(@, slot, val)]
           /\ el_hist' = Append(el_hist, slot)
    /\ el_attrs' = None
    /\ el_out' = None
    /\ UNCHANGED <<regVars, relVars, langVars, pageVars>>

\* el.render(), which calls el.render_attributes()
RenderElement ==
    /\ el # NoElement
    /\ el_attrs' = Some(render_attributes(el.dict))
    /\ el_out' = Some(Render(<<>>, el))
    /\ UNCHANGED <<el, el_hist, regVars, relVars, langVars, pageVars>>

NextEl ==
    \/ ConstructHTML \/ ConstructMetaCharset \/ ConstructMetaViewport
    \/ ConstructLinkIcon \/ SetAttr \/ RenderElement

SpecEl == InitEl /\ [][NextEl]_vars

-----------------------------------------------------------------------------
(* Properties of the attributed elements under SpecEl *)

\* the slots of each element type, in the order they are declared
DeclaredSlots(cls) ==
    CASE cls = "HTML" -> <<"lang", "dir">>
      [] cls = "MetaCharset" -> <<"charset">>
      [] cls = "MetaViewport" -> <<"name", "content">>
      [] cls = "LinkIcon" -> <<"rel", "href", "type", "sizes">>

\* for each declared slot in turn: a space and the rendering of the Attribute
\* it holds, nothing when it holds None
RECURSIVE ExpectedAttrs(_, _)
ExpectedAttrs(d, slots) ==
    IF slots = <<>> THEN <<>>
    ELSE (IF DictGet(d, Head(slots)).t = "attr"
          THEN <<" ">> \o AttrRender(DictGet(d, Head(slots)))
          ELSE <<>>) \o ExpectedAttrs(d, Tail(slots))

TagOpen(cls) ==
    CASE cls = "HTML" -> <<"<", "h", "t", "m", "l">>
      [] cls \in {"MetaCharset", "MetaViewport"} -> <<"<", "m", "e", "t", "a">>
      [] cls = "LinkIcon" -> <<"<", "l", "i", "n", "k">>
TagClose(cls) ==
    IF cls = "HTML" THEN <<">", "<", "/", "h", "t", "m", "l", ">">> ELSE <<">">>

\* C5: whatever the order in which the slots were assigned, render_attributes
\* gives, for the declared slots in their declared order, a space and the
\* rendering of each slot that holds an Attribute, and nothing for a slot that
\* holds None.
C5_DeclaredOrder ==
    ~IsNone(el_out) =>
        /\ Get(el_attrs) = ExpectedAttrs(el.dict, DeclaredSlots(el.cls))
        /\ Get(el_out) = TagOpen(el.cls) \o ExpectedAttrs(el.dict, DeclaredSlots(el.cls))
                             \o TagClose(el.cls)
        /\ (el.cls = "HTML" /\ DictGet(el.dict, "lang") = VNone
              /\ DictGet(el.dict, "dir") = VNone) =>
               Get(el_out) = <<"<", "h", "t", "m", "l", ">", "<", "/", "h", "t", "m", "l", ">">>

\* an HTML whose dir was assigned before its lang renders lang first
C5_Witness ==
    /\ el.cls = "HTML"
    /\ el_hist = <<"dir", "lang">>
    /\ el_out = Some(<<"<", "h", "t", "m", "l", " ", "l", "a", "n", "g", "=", "\"", "e", "n",
                       "\"", " ", "d", "i", "r", "=", "\"", "l", "t", "r", "\"", ">",
                       "<", "/", "h", "t", "m", "l", ">">>)

-----------------------------------------------------------------------------
(* Page (page.py): the DocType and the root HTML, and the tree under it *)

\* Page.render, line 17: the renderings of Page.children, joined
RECURSIVE PageRender(_, _)
PageRender(h, ids) ==
    IF ids = <<>> THEN <<>>
    ELSE Render(h, h[Head(ids)]) \o PageRender(h, Tail(ids))

IsContainer(o) == o.cls \in {"HTML", "Head", "Body"}

\* Page(html_element): lines 9-12, its children are the DocType and the root
InitPage ==
    /\ \E lang \in {VNone, A_lang_en}, dir_ \in {VNone, A_dir_ltr} :
           heap = <<NewDocType, NewHTML(lang, dir_, <<>>)>>
    /\ page_children = <<1, 2>>
    /\ page_out = None
    /\ RegIdle /\ RelIdle /\ LangIdle /\ ElIdle

\* the elements the callers put under a container
NewChildren ==
    {NewHead(<<>>), NewBody(<<>>), NewTitle(<<"t">>), NewTitle(<<"u">>),
     NewMetaCharset(A_charset_utf8)}

\* parent.children.append(o), o a new element
AppendChild ==
    /\ Len(heap) < MaxNodes
    /\ \E p \in 1..Len(heap), o \in NewChildren :
           /\ IsContainer(heap[p])
           /\ heap' = Append([heap EXCEPT ![p].dict =
                                  DictSet(@, "children",
                                          VList(Append(DictGet(@, "children").items,
                                                       Len(heap) + 1)))], o)
    /\ page_out' = None
    /\ UNCHANGED <<page_children, regVars, relVars, langVars, elVars>>

\* page.render()
RenderPage ==
    /\ page_out' = Some(PageRender(heap, page_children))
    /\ UNCHANGED <<heap, page_children, regVars, relVars, langVars, elVars>>

NextPage == AppendChild \/ RenderPage

SpecPage == InitPage /\ [][NextPage]_vars

-----------------------------------------------------------------------------
(* Properties of Page.render under SpecPage *)

\* the output written as a pre-order walk with an explicit work list: a text
\* is emitted, a node is replaced by its open tag, its children in sequence
\* order and its close tag
WText(s) == [isText |-> TRUE, id |-> 0, text |-> s]
WNode(i) == [isText |-> FALSE, id |-> i, text |-> <<>>]

ContainerOpen(o) ==
    CASE o.cls = "HTML" -> <<"<", "h", "t", "m", "l">>
                               \o ExpectedAttrs(o.dict, DeclaredSlots("HTML")) \o <<">">>
      [] o.cls = "Head" -> <<"<", "h", "e", "a", "d", ">">>
      [] o.cls = "Body" -> <<"<", "b", "o", "d", "y", ">">>
ContainerClose(o) ==
    CASE o.cls = "HTML" -> <<"<", "/", "h", "t", "m", "l", ">">>
      [] o.cls = "Head" -> <<"<", "/", "h", "e", "a", "d", ">">>
      [] o.cls = "Body" -> <<"<", "/", "b", "o", "d", "y", ">">>
LeafText(o) ==
    CASE o.cls = "DocType" -> S_doctype
      [] o.cls = "Title" -> <<"<", "t", "i", "t", "l", "e", ">">> \o DictGet(o.dict, "value").v
                                \o <<"<", "/", "t", "i", "t", "l", "e", ">">>
      [] o.cls = "MetaCharset" -> <<"<", "m", "e", "t", "a">>
                                      \o ExpectedAttrs(o.dict, DeclaredSlots("MetaCharset"))
                                      \o <<">">>

Expand(h, i) ==
    IF IsContainer(h[i])
    THEN <<WText(ContainerOpen(h[i]))>>
             \o [k \in 1..Len(DictGet(h[i].dict, "children").items) |->
                    WNode(DictGet(h[i].dict, "children").items[k])]
             \o <<WText(ContainerClose(h[i]))>>
    ELSE <<WText(LeafText(h[i]))>>

RECURSIVE Emit(_, _)
Emit(h, work) ==
    IF work = <<>> THEN <<>>
    ELSE IF Head(work).isText THEN Head(work).text \o Emit(h, Tail(work))
    ELSE Emit(h, Expand(h, Head(work).id) \o Tail(work))

\* C6: Page.render is the DocType marker immediately followed by the rendering
\* of the root HTML element, where every container is its open tag, its
\* children in their sequence order with nothing between them, and its close
\* tag: no child is dropped, duplicated or reordered.
C6_DocTypeThenTree ==
    ~IsNone(page_out) => Get(page_out) = S_doctype \o Emit(heap, <<WNode(2)>>)

\* a rendered page whose root has a head holding two titles, and a body
C6_Witness ==
    /\ ~IsNone(page_out)
    /\ Len(heap) = 6
    /\ DictGet(heap[2].dict, "children").items = <<3, 4>>
    /\ heap[3].cls = "Head" /\ heap[4].cls = "Body"
    /\ DictGet(heap[3].dict, "children").items = <<5, 6>>
    /\ heap[5] = NewTitle(<<"t">>) /\ heap[6] = NewTitle(<<"u">>)
    /\ DictGet(heap[2].dict, "lang") = A_lang_en

=============================================================================
